---- MODULE Spec2Model ----
(***************************************************************************)
(* Model of program.c: the footprint aggregator.  One process connects to  *)
(* the data store, reads the attendee rows and the activity rows of one    *)
(* event, sums a per-row footprint and writes the total back onto the      *)
(* event row.                                                              *)
(*                                                                         *)
(* Numbers.  A footprint is an integer count of 10^-7 units, a distance an *)
(* integer count of 10^-5 units, a coefficient an integer count of 10^-2   *)
(* units, so that distance * coefficient is exact.  Every distance text of *)
(* the model has at most five decimals, every total stays below 2^31       *)
(* counts, and no total falls on a rounding tie of the %f conversion; the  *)
(* double arithmetic of the program gives the same six-decimal text on     *)
(* these inputs.                                                           *)
(*                                                                         *)
(* Text.  A C string is a tuple of one-character strings; NUL is the       *)
(* terminator.  A column value is the text PQgetvalue returns (the empty   *)
(* text for SQL NULL).                                                     *)
(***************************************************************************)
EXTENDS Integers, Sequences, FiniteSets

VARIABLES
    attendees,        \* table attendees: a set of rows
    activities,       \* table activities: a set of rows
    events,           \* table events: id -> carbon_footprint
    argv,             \* per process: the event id given on the command line
    pc,               \* per process: position in main / the function
    conn,             \* per process: state of the PGconn handle
    exit_status,      \* per process: return value of main
    event_id,         \* per process: parameter of the function
    total_footprint,  \* per process: the running total
    res,              \* per process: rows of the current PGresult
    i,                \* per process: loop index (rows consumed so far)
    ops,              \* per process: data-store calls issued, in order
    hist,             \* per process: observations of the current run
    last_writer,      \* per event: who wrote carbon_footprint last
    ext_ops           \* number of changes made by the external system

vars == <<attendees, activities, events, argv, pc, conn, exit_status,
          event_id, total_footprint, res, i, ops, hist, last_writer, ext_ops>>

db == <<attendees, activities, events>>

----------------------------------------------------------------------------
(* Scales of the integer representation.                                   *)

DistScale == 10^5
CoefScale == 10^2
One == DistScale * CoefScale
SixDecimals == One \div 10^6

(* Bounds of the model.                                                    *)
MaxAttendees == 2
MaxActivities == 2
MaxRuns == 2
MaxExtOps == 2

EventIds == {1, 2}

----------------------------------------------------------------------------
(* C strings.                                                              *)

NUL == "NUL"

S_car == <<"c", "a", "r">>
S_plane == <<"p", "l", "a", "n", "e">>
S_train == <<"t", "r", "a", "i", "n">>
S_virtual == <<"v", "i", "r", "t", "u", "a", "l">>

Digits == <<"0", "1", "2", "3", "4", "5", "6", "7", "8", "9">>

IsDigit(c) == \E d \in 1..10 : Digits[d] = c

DigitVal(c) == (CHOOSE d \in 1..10 : Digits[d] = c) - 1

RECURSIVE ParseDigits(_, _, _, _)
(* Consume at most `most` leading digits of s from position k on.          *)
ParseDigits(s, k, acc, most) ==
    IF most > 0 /\ k <= Len(s) /\ IsDigit(s[k])
    THEN ParseDigits(s, k + 1, acc * 10 + DigitVal(s[k]), most - 1)
    ELSE [val |-> acc, next |-> k]

RECURSIVE Pow10(_)
Pow10(n) == IF n = 0 THEN 1 ELSE 10 * Pow10(n - 1)

(* atoi: optional sign, then decimal digits; 0 when there are none.        *)
atoi(s) ==
    LET neg == Len(s) >= 1 /\ s[1] = "-"
        first == IF Len(s) >= 1 /\ s[1] \in {"-", "+"} THEN 2 ELSE 1
        p == ParseDigits(s, first, 0, Len(s))
    IN  IF neg THEN 0 - p.val ELSE p.val

(* atof: optional sign, digits, optional point and digits; 0 when no       *)
(* number starts the text.  The result is in units of 1/DistScale.         *)
atof(s) ==
    LET neg == Len(s) >= 1 /\ s[1] = "-"
        first == IF Len(s) >= 1 /\ s[1] \in {"-", "+"} THEN 2 ELSE 1
        ip == ParseDigits(s, first, 0, Len(s))
        dot == ip.next <= Len(s) /\ s[ip.next] = "."
        fp == IF dot THEN ParseDigits(s, ip.next + 1, 0, 5)
                     ELSE [val |-> 0, next |-> ip.next]
        nfrac == IF dot THEN fp.next - (ip.next + 1) ELSE 0
        mag == ip.val * DistScale + fp.val * Pow10(5 - nfrac)
    IN  IF neg THEN 0 - mag ELSE mag

(* A char array of n bytes, all zero.                                      *)
ZeroBuf(n) == [k \in 1..n |-> NUL]

(* strncpy(dest, src, n): the first n characters of src, padded with NUL   *)
(* up to n when src is shorter; bytes of dest beyond n are left alone.     *)
strncpy(dest, src, n) ==
    [k \in DOMAIN dest |->
        IF k <= n THEN (IF k <= Len(src) THEN src[k] ELSE NUL) ELSE dest[k]]

(* The C string held in a char array: the bytes before the first NUL.      *)
CStr(buf) ==
    LET nuls == {k \in DOMAIN buf : buf[k] = NUL}
        end == IF nuls = {} THEN Len(buf) + 1
               ELSE CHOOSE k \in nuls : \A m \in nuls : k <= m
    IN  SubSeq(buf, 1, end - 1)

(* A comparison of the leading strlen(b) characters only.                  *)
strcmp_prefix(a, b) ==
    IF Len(CStr(a)) >= Len(b) /\ SubSeq(CStr(a), 1, Len(b)) = b THEN 0 ELSE 1

(* strcmp, as far as the program uses it: 0 exactly for equal strings.     *)
strcmp(a, b) == IF CStr(a) = b THEN 0 ELSE 1

----------------------------------------------------------------------------
(* The rule tables (coefficients in units of 1/CoefScale).                 *)

CarCoef == 24
PlaneCoef == 18
TrainCoef == 14
VirtualFootprint == 10
OtherFootprint == 50
TRAVEL_MODE_SIZE == 10
ACTIVITY_TYPE_SIZE_short == 7 + 1
ACTIVITY_TYPE_SIZE == 10

(* The hardcoded event id of main.                                         *)
MainEventId == 1

(* The plane and train coefficients exchanged.                             *)
calculate_attendee_footprint_swapped(attendee) ==
    IF strcmp(attendee.travel_mode, S_car) = 0
    THEN attendee.distance * CarCoef
    ELSE IF strcmp(attendee.travel_mode, S_plane) = 0
    THEN attendee.distance * TrainCoef
    ELSE IF strcmp(attendee.travel_mode, S_train) = 0
    THEN attendee.distance * PlaneCoef
    ELSE 0

calculate_attendee_footprint(attendee) ==
    IF strcmp(attendee.travel_mode, S_car) = 0
    THEN attendee.distance * CarCoef
    ELSE IF strcmp(attendee.travel_mode, S_plane) = 0
    THEN attendee.distance * PlaneCoef
    ELSE IF strcmp(attendee.travel_mode, S_train) = 0
    THEN attendee.distance * TrainCoef
    ELSE 0

calculate_activity_footprint(activity) ==
    IF strcmp(activity.activity_type, S_virtual) = 0
    THEN VirtualFootprint * One
    ELSE OtherFootprint * One

(* PQgetvalue(res, row, col), rows and columns counted from 0.             *)
PQgetvalue(r, row, col) == r[row + 1][col + 1]

(* The Attendee record of one loop iteration: the designated initializer   *)
(* zeroes travel_mode, strncpy then fills at most sizeof - 1 bytes.        *)
MakeAttendee(r, row) ==
    [id |-> atoi(PQgetvalue(r, row, 0)),
     distance |-> atof(PQgetvalue(r, row, 2)),
     travel_mode |-> strncpy(ZeroBuf(TRAVEL_MODE_SIZE), PQgetvalue(r, row, 1),
                             TRAVEL_MODE_SIZE - 1)]

MakeActivity(r, row) ==
    [id |-> atoi(PQgetvalue(r, row, 0)),
     activity_type |-> strncpy(ZeroBuf(ACTIVITY_TYPE_SIZE), PQgetvalue(r, row, 1),
                               ACTIVITY_TYPE_SIZE - 1)]

(* snprintf("%f") of the total, as the store reads it back: the value      *)
(* rounded to six decimals.                                                *)
FormatF(x) ==
    LET q == x \div SixDecimals
        r == x % SixDecimals
    IN  IF 2 * r >= SixDecimals THEN (q + 1) * SixDecimals ELSE q * SixDecimals

(* SET carbon_footprint = carbon_footprint + total.                        *)
UpdateValue_accumulate(old, total) == old + FormatF(total)

(* SET carbon_footprint = GREATEST(carbon_footprint, total).               *)
UpdateValue_max(old, total) ==
    IF old > FormatF(total) THEN old ELSE FormatF(total)

(* The value the UPDATE statement sets: the formatted total, whatever the  *)
(* column held.                                                            *)
UpdateValue(old, total) == FormatF(total)

(* The start value of the running total of a call.                         *)
StartTotal(previous) == 0

----------------------------------------------------------------------------
(* The data store.                                                         *)

Perms(rows) ==
    {f \in [1..Cardinality(rows) -> rows] :
        \A a, b \in 1..Cardinality(rows) : f[a] = f[b] => a = b}

(* SELECT id, travel_mode, distance FROM attendees WHERE event_id = e:     *)
(* the matching rows, in any order.                                        *)
SelectAttendeesResults(e) ==
    {[k \in DOMAIN f |-> <<f[k].id, f[k].travel_mode, f[k].distance>>] :
        f \in Perms({a \in attendees : a.event_id = e})}

(* SELECT id, activity_type FROM activities WHERE event_id = e.            *)
SelectActivitiesResults(e) ==
    {[k \in DOMAIN f |-> <<f[k].id, f[k].activity_type>>] :
        f \in Perms({a \in activities : a.event_id = e})}

(* UPDATE events SET carbon_footprint = v WHERE id = e.                    *)
UpdateEvents(e, v) == [x \in DOMAIN events |-> IF x = e THEN v ELSE events[x]]

----------------------------------------------------------------------------
(* The inputs: column texts and rows.                                      *)

NullText == <<>>
S_Car == <<"C", "a", "r">>
S_spcar == <<" ", "c", "a", "r">>
S_carsp == <<"c", "a", "r", " ">>
S_bike == <<"b", "i", "k", "e">>
S_carpooling == <<"c", "a", "r", "p", "o", "o", "l", "i", "n", "g">>
S_workshop == <<"w", "o", "r", "k", "s", "h", "o", "p">>
S_Virtual == <<"V", "i", "r", "t", "u", "a", "l">>
S_virtualsp == <<"v", "i", "r", "t", "u", "a", "l", " ">>
S_virtually == <<"v", "i", "r", "t", "u", "a", "l", "l", "y">>
S_virtualization ==
    <<"v", "i", "r", "t", "u", "a", "l", "i", "z", "a", "t", "i", "o", "n">>

T_0 == <<"0">>
T_4 == <<"4">>
T_40 == <<"4", "0">>
T_12_5 == <<"1", "2", ".", "5">>
T_micro == <<"0", ".", "0", "0", "0", "0", "1">>
T_negmicro == <<"-", "0", ".", "0", "0", "0", "0", "1">>

T_id(n) == <<Digits[n + 1]>>

TravelModes ==
    {S_car, S_plane, S_train, S_Car, S_spcar, S_carsp, S_bike, S_carpooling,
     NullText}

DistanceTexts == {T_0, T_4, T_40, T_12_5, T_micro, T_negmicro}

ActivityTypes ==
    {S_virtual, S_workshop, S_Virtual, S_virtualsp, S_virtually,
     S_virtualization, NullText}

AttendeeRow(n, e, mode, dist) ==
    [id |-> T_id(n), event_id |-> e, travel_mode |-> mode, distance |-> dist]

ActivityRow(n, e, type) ==
    [id |-> T_id(n), event_id |-> e, activity_type |-> type]

(* Rows of the multi-row runs.                                             *)
AttendeeSamples ==
    {AttendeeRow(1, 1, S_car, T_4),
     AttendeeRow(2, 1, S_plane, T_micro),
     AttendeeRow(3, 1, S_bike, T_40),
     AttendeeRow(4, 1, S_car, T_negmicro),
     AttendeeRow(5, 1, S_carpooling, T_12_5),
     AttendeeRow(6, 2, S_train, T_12_5),
     AttendeeRow(7, 2, S_car, T_4)}

ActivitySamples ==
    {ActivityRow(1, 1, S_virtual),
     ActivityRow(2, 1, S_workshop),
     ActivityRow(3, 1, S_virtually),
     ActivityRow(4, 2, S_virtual),
     ActivityRow(5, 2, NullText)}

(* Rows of the concurrent runs: totals with no digit beyond the sixth      *)
(* decimal.                                                                *)
AttendeeSamplesConc ==
    {AttendeeRow(1, 1, S_car, T_40),
     AttendeeRow(2, 1, S_train, T_12_5)}

ActivitySamplesConc ==
    {ActivityRow(1, 1, S_virtual),
     ActivityRow(2, 1, S_workshop)}

(* Values an event's carbon_footprint holds before a run.                  *)
OldFootprints == {0, 3 * One}

AtMost(rows, n) == {t \in SUBSET rows : Cardinality(t) <= n}

----------------------------------------------------------------------------
(* What the rule tables of the specification give for a stored row, from   *)
(* the stored values themselves.                                           *)

DistanceValue(t) ==
    CASE t = T_4 -> 4 * DistScale
      [] t = T_40 -> 40 * DistScale
      [] t = T_12_5 -> 125 * (DistScale \div 10)
      [] t = T_micro -> 1
      [] t = T_negmicro -> 0 - 1
      [] OTHER -> 0

ExpectedAttendee(row) ==
    CASE row.travel_mode = S_car -> DistanceValue(row.distance) * 24
      [] row.travel_mode = S_plane -> DistanceValue(row.distance) * 18
      [] row.travel_mode = S_train -> DistanceValue(row.distance) * 14
      [] OTHER -> 0

ExpectedActivity(row) ==
    IF row.activity_type = S_virtual THEN 10 * One ELSE 50 * One

RECURSIVE SumAttendees(_)
SumAttendees(rows) ==
    IF rows = {} THEN 0
    ELSE LET r == CHOOSE x \in rows : TRUE
         IN  ExpectedAttendee(r) + SumAttendees(rows \ {r})

RECURSIVE SumActivities(_)
SumActivities(rows) ==
    IF rows = {} THEN 0
    ELSE LET r == CHOOSE x \in rows : TRUE
         IN  ExpectedActivity(r) + SumActivities(rows \ {r})

AttendeesOf(table, e) == {a \in table : a.event_id = e}
ActivitiesOf(table, e) == {a \in table : a.event_id = e}

(* The footprint of event e in the tables att, act.                        *)
Footprint(att, act, e) ==
    SumAttendees(AttendeesOf(att, e)) + SumActivities(ActivitiesOf(act, e))

----------------------------------------------------------------------------
(* Observations kept beside the program's state.                           *)

HistInit ==
    [run |-> 0, before |-> 0, outcome |-> "none", att_rows |-> {},
     act_rows |-> {}, snaps |-> {}, stale |-> {}, lost |-> {},
     stored |-> <<>>]

(* A call of the function on event e starts.                               *)
Begin(h, e) ==
    [h EXCEPT !.run = @ + 1, !.before = events[e], !.outcome = "running",
              !.att_rows = {}, !.act_rows = {},
              !.snaps = {Footprint(attendees, activities, e)},
              !.stale = {}, !.lost = {}]

Procs == DOMAIN pc

(* Writers of an event row that are no process of the model.               *)
ExtWriter == 0 - 1
NoWriter == ExtWriter - 1

InRun(p) == pc[p] \in {"select_attendees", "attendee_loop", "activity_loop"}

(* The other runs that have issued both reads of event e, and not yet      *)
(* their write, see it written by `writer`.                                *)
MarkStale(h, writer, e) ==
    [q \in DOMAIN h |->
        IF q # writer /\ pc[q] = "activity_loop" /\ event_id[q] = e
        THEN [h[q] EXCEPT !.stale = @ \cup {writer}] ELSE h[q]]

(* The runs in progress see the tables att, act.                           *)
Observe(h, att, act) ==
    [q \in DOMAIN h |->
        IF InRun(q)
        THEN [h[q] EXCEPT !.snaps = @ \cup {Footprint(att, act, event_id[q])}]
        ELSE h[q]]

----------------------------------------------------------------------------
(* main                                                                    *)

(* PQconnectdb: the connection succeeds or fails.                          *)
Connect(p) ==
    /\ pc[p] = "main"
    /\ \E ok \in BOOLEAN :
          conn' = [conn EXCEPT ![p] =
                     [status |-> IF ok THEN "ok" ELSE "bad", open |-> TRUE]]
    /\ ops' = [ops EXCEPT ![p] = Append(@, "PQconnectdb")]
    /\ pc' = [pc EXCEPT ![p] = "connected"]
    /\ UNCHANGED <<db, argv, exit_status, event_id, total_footprint, res, i,
                   hist, last_writer, ext_ops>>

(* The failure path without its PQfinish.                                  *)
ConnectionFailed_leak(p) ==
    /\ pc[p] = "connected"
    /\ conn[p].status # "ok"
    /\ exit_status' = [exit_status EXCEPT ![p] = 1]
    /\ pc' = [pc EXCEPT ![p] = "exit"]
    /\ UNCHANGED <<db, argv, conn, event_id, total_footprint, res, i, ops,
                   hist, last_writer, ext_ops>>

(* PQstatus(conn) != CONNECTION_OK: PQfinish, return 1.                    *)
ConnectionFailed(p) ==
    /\ pc[p] = "connected"
    /\ conn[p].status # "ok"
    /\ ops' = [ops EXCEPT ![p] = Append(@, "PQfinish")]
    /\ conn' = [conn EXCEPT ![p].open = FALSE]
    /\ exit_status' = [exit_status EXCEPT ![p] = 1]
    /\ pc' = [pc EXCEPT ![p] = "exit"]
    /\ UNCHANGED <<db, argv, event_id, total_footprint, res, i, hist,
                   last_writer, ext_ops>>

(* int event_id = 1; the call of the function.                             *)
CallFootprint(p) ==
    /\ pc[p] = "connected"
    /\ conn[p].status = "ok"
    /\ event_id' = [event_id EXCEPT ![p] = MainEventId]
    /\ hist' = [hist EXCEPT ![p] = Begin(@, MainEventId)]
    /\ pc' = [pc EXCEPT ![p] = "select_attendees"]
    /\ UNCHANGED <<db, argv, conn, exit_status, total_footprint, res, i, ops,
                   last_writer, ext_ops>>

(* A main that returns 1 when the function did not write.                  *)
Finish_status(p) ==
    /\ pc[p] = "returned"
    /\ ops' = [ops EXCEPT ![p] = Append(@, "PQfinish")]
    /\ conn' = [conn EXCEPT ![p].open = FALSE]
    /\ exit_status' =
          [exit_status EXCEPT ![p] = IF hist[p].outcome = "written" THEN 0 ELSE 1]
    /\ pc' = [pc EXCEPT ![p] = "exit"]
    /\ UNCHANGED <<db, argv, event_id, total_footprint, res, i, hist,
                   last_writer, ext_ops>>

(* After the function returns: PQfinish, return 0.                         *)
Finish(p) ==
    /\ pc[p] = "returned"
    /\ ops' = [ops EXCEPT ![p] = Append(@, "PQfinish")]
    /\ conn' = [conn EXCEPT ![p].open = FALSE]
    /\ exit_status' = [exit_status EXCEPT ![p] = 0]
    /\ pc' = [pc EXCEPT ![p] = "exit"]
    /\ UNCHANGED <<db, argv, event_id, total_footprint, res, i, hist,
                   last_writer, ext_ops>>

----------------------------------------------------------------------------
(* calculate_and_update_event_footprint                                    *)

(* The attendee read without the return of its failure branch.             *)
SelectAttendees_noreturn(p) ==
    /\ pc[p] = "select_attendees"
    /\ ops' = [ops EXCEPT ![p] = Append(@, "SELECT attendees")]
    /\ total_footprint' =
          [total_footprint EXCEPT ![p] = StartTotal(total_footprint[p])]
    /\ \/ /\ \E r \in SelectAttendeesResults(event_id[p]) :
                res' = [res EXCEPT ![p] = r]
          /\ hist' = [hist EXCEPT
                ![p].att_rows = AttendeesOf(attendees, event_id[p])]
       \/ /\ res' = [res EXCEPT ![p] = <<>>]
          /\ hist' = [hist EXCEPT ![p].outcome = "attendees_failed"]
    /\ i' = [i EXCEPT ![p] = 0]
    /\ pc' = [pc EXCEPT ![p] = "attendee_loop"]
    /\ UNCHANGED <<db, argv, conn, exit_status, event_id, last_writer, ext_ops>>

(* total_footprint = 0.0; the SELECT on attendees and its status check.    *)
SelectAttendees(p) ==
    /\ pc[p] = "select_attendees"
    /\ ops' = [ops EXCEPT ![p] = Append(@, "SELECT attendees")]
    /\ total_footprint' =
          [total_footprint EXCEPT ![p] = StartTotal(total_footprint[p])]
    /\ \/ /\ \E r \in SelectAttendeesResults(event_id[p]) :
                res' = [res EXCEPT ![p] = r]
          /\ i' = [i EXCEPT ![p] = 0]
          /\ hist' = [hist EXCEPT
                ![p].att_rows = AttendeesOf(attendees, event_id[p])]
          /\ pc' = [pc EXCEPT ![p] = "attendee_loop"]
       \/ /\ hist' = [hist EXCEPT ![p].outcome = "attendees_failed"]
          /\ pc' = [pc EXCEPT ![p] = "returned"]
          /\ UNCHANGED <<res, i>>
    /\ UNCHANGED <<db, argv, conn, exit_status, event_id, last_writer, ext_ops>>

(* One iteration of the attendee loop.                                     *)
AttendeeLoop(p) ==
    /\ pc[p] = "attendee_loop"
    /\ i[p] < Len(res[p])
    /\ total_footprint' = [total_footprint EXCEPT ![p] =
          @ + calculate_attendee_footprint(MakeAttendee(res[p], i[p]))]
    /\ i' = [i EXCEPT ![p] = @ + 1]
    /\ UNCHANGED <<db, argv, pc, conn, exit_status, event_id, res, ops, hist,
                   last_writer, ext_ops>>

(* The loop ends; PQclear; the SELECT on activities and its status check.  *)
SelectActivities(p) ==
    /\ pc[p] = "attendee_loop"
    /\ i[p] >= Len(res[p])
    /\ ops' = [ops EXCEPT ![p] = Append(@, "SELECT activities")]
    /\ \/ /\ \E r \in SelectActivitiesResults(event_id[p]) :
                res' = [res EXCEPT ![p] = r]
          /\ i' = [i EXCEPT ![p] = 0]
          /\ hist' = [hist EXCEPT
                ![p].act_rows = ActivitiesOf(activities, event_id[p])]
          /\ pc' = [pc EXCEPT ![p] = "activity_loop"]
       \/ /\ res' = [res EXCEPT ![p] = <<>>]
          /\ hist' = [hist EXCEPT ![p].outcome = "activities_failed"]
          /\ pc' = [pc EXCEPT ![p] = "returned"]
          /\ UNCHANGED i
    /\ UNCHANGED <<db, argv, conn, exit_status, event_id, total_footprint,
                   last_writer, ext_ops>>

(* One iteration of the activity loop.                                     *)
ActivityLoop(p) ==
    /\ pc[p] = "activity_loop"
    /\ i[p] < Len(res[p])
    /\ total_footprint' = [total_footprint EXCEPT ![p] =
          @ + calculate_activity_footprint(MakeActivity(res[p], i[p]))]
    /\ i' = [i EXCEPT ![p] = @ + 1]
    /\ UNCHANGED <<db, argv, pc, conn, exit_status, event_id, res, ops, hist,
                   last_writer, ext_ops>>

(* The loop ends; PQclear; the UPDATE of the event and its status check.   *)
UpdateEvent(p) ==
    /\ pc[p] = "activity_loop"
    /\ i[p] >= Len(res[p])
    /\ ops' = [ops EXCEPT ![p] = Append(@, "UPDATE events")]
    /\ res' = [res EXCEPT ![p] = <<>>]
    /\ pc' = [pc EXCEPT ![p] = "returned"]
    /\ \/ /\ LET v == UpdateValue(events[event_id[p]], total_footprint[p])
             IN  /\ events' = UpdateEvents(event_id[p], v)
                 /\ hist' = [MarkStale(hist, p, event_id[p]) EXCEPT
                       ![p].outcome = "written",
                       ![p].lost = hist[p].stale,
                       ![p].stored = Append(@, v)]
          /\ last_writer' = [last_writer EXCEPT ![event_id[p]] = p]
       \/ /\ hist' = [hist EXCEPT ![p].outcome = "update_failed"]
          /\ UNCHANGED <<events, last_writer>>
    /\ UNCHANGED <<attendees, activities, argv, conn, exit_status, event_id,
                   total_footprint, i, ext_ops>>

(* The caller of the function calls it again on the same event.            *)
CallAgain(p) ==
    /\ pc[p] = "returned"
    /\ hist[p].run < MaxRuns
    /\ hist' = [hist EXCEPT ![p] = Begin(@, event_id[p])]
    /\ ops' = [ops EXCEPT ![p] = <<>>]
    /\ pc' = [pc EXCEPT ![p] = "select_attendees"]
    /\ UNCHANGED <<db, argv, conn, exit_status, event_id, total_footprint,
                   res, i, last_writer, ext_ops>>

----------------------------------------------------------------------------
(* The external system that owns the rows, and other writers of the event. *)

ExtFootprint == 7 * One

ExtInsertAttendee ==
    /\ ext_ops < MaxExtOps
    /\ Cardinality(attendees) < MaxAttendees
    /\ \E r \in AttendeeSamplesConc :
          /\ \A a \in attendees : a.id # r.id
          /\ attendees' = attendees \cup {r}
    /\ hist' = Observe(hist, attendees', activities)
    /\ ext_ops' = ext_ops + 1
    /\ UNCHANGED <<activities, events, argv, pc, conn, exit_status, event_id,
                   total_footprint, res, i, ops, last_writer>>

ExtDeleteAttendee ==
    /\ ext_ops < MaxExtOps
    /\ \E r \in attendees : attendees' = attendees \ {r}
    /\ hist' = Observe(hist, attendees', activities)
    /\ ext_ops' = ext_ops + 1
    /\ UNCHANGED <<activities, events, argv, pc, conn, exit_status, event_id,
                   total_footprint, res, i, ops, last_writer>>

ExtChangeAttendee ==
    /\ ext_ops < MaxExtOps
    /\ \E r \in attendees : \E m \in {S_plane, S_bike} :
          /\ r.travel_mode # m
          /\ attendees' = (attendees \ {r}) \cup {[r EXCEPT !.travel_mode = m]}
    /\ hist' = Observe(hist, attendees', activities)
    /\ ext_ops' = ext_ops + 1
    /\ UNCHANGED <<activities, events, argv, pc, conn, exit_status, event_id,
                   total_footprint, res, i, ops, last_writer>>

ExtInsertActivity ==
    /\ ext_ops < MaxExtOps
    /\ Cardinality(activities) < MaxActivities
    /\ \E r \in ActivitySamplesConc :
          /\ \A a \in activities : a.id # r.id
          /\ activities' = activities \cup {r}
    /\ hist' = Observe(hist, attendees, activities')
    /\ ext_ops' = ext_ops + 1
    /\ UNCHANGED <<attendees, events, argv, pc, conn, exit_status, event_id,
                   total_footprint, res, i, ops, last_writer>>

ExtDeleteActivity ==
    /\ ext_ops < MaxExtOps
    /\ \E r \in activities : activities' = activities \ {r}
    /\ hist' = Observe(hist, attendees, activities')
    /\ ext_ops' = ext_ops + 1
    /\ UNCHANGED <<attendees, events, argv, pc, conn, exit_status, event_id,
                   total_footprint, res, i, ops, last_writer>>

ExtChangeActivity ==
    /\ ext_ops < MaxExtOps
    /\ \E r \in activities : \E t \in {S_virtual, S_workshop} :
          /\ r.activity_type # t
          /\ activities' =
                (activities \ {r}) \cup {[r EXCEPT !.activity_type = t]}
    /\ hist' = Observe(hist, attendees, activities')
    /\ ext_ops' = ext_ops + 1
    /\ UNCHANGED <<attendees, events, argv, pc, conn, exit_status, event_id,
                   total_footprint, res, i, ops, last_writer>>

(* Another writer sets the carbon_footprint of an event.                   *)
ExtWriteEvent ==
    /\ ext_ops < MaxExtOps
    /\ \E e \in DOMAIN events :
          /\ events' = [events EXCEPT ![e] = ExtFootprint]
          /\ last_writer' = [last_writer EXCEPT ![e] = ExtWriter]
          /\ hist' = MarkStale(hist, ExtWriter, e)
    /\ ext_ops' = ext_ops + 1
    /\ UNCHANGED <<attendees, activities, argv, pc, conn, exit_status,
                   event_id, total_footprint, res, i, ops>>

----------------------------------------------------------------------------
(* Initial states.                                                         *)

InitStore(atts, acts, olds) ==
    /\ attendees \in atts
    /\ activities \in acts
    /\ \E v \in olds : events = [e \in EventIds |-> v]
    /\ last_writer = [e \in EventIds |-> NoWriter]
    /\ ext_ops = 0

(* The processes P at the entry of main, started by one caller with one    *)
(* event id.                                                               *)
InitMain(P) ==
    /\ \E e \in EventIds : argv = [p \in P |-> e]
    /\ pc = [p \in P |-> "main"]
    /\ conn = [p \in P |-> [status |-> "none", open |-> FALSE]]
    /\ exit_status = [p \in P |-> 0 - 1]
    /\ event_id = [p \in P |-> 0]
    /\ total_footprint = [p \in P |-> 0]
    /\ res = [p \in P |-> <<>>]
    /\ i = [p \in P |-> 0]
    /\ ops = [p \in P |-> <<>>]
    /\ hist = [p \in P |-> HistInit]

(* One process at the entry of the function, called on any event, over an  *)
(* open connection.                                                        *)
InitCall ==
    /\ \E e \in EventIds :
          /\ argv = [p \in {1} |-> e]
          /\ event_id = [p \in {1} |-> e]
          /\ hist = [p \in {1} |-> Begin(HistInit, e)]
    /\ pc = [p \in {1} |-> "select_attendees"]
    /\ conn = [p \in {1} |-> [status |-> "ok", open |-> TRUE]]
    /\ exit_status = [p \in {1} |-> 0 - 1]
    /\ total_footprint = [p \in {1} |-> 0]
    /\ res = [p \in {1} |-> <<>>]
    /\ i = [p \in {1} |-> 0]
    /\ ops = [p \in {1} |-> <<>>]

(* Every single attendee row and every single activity row of an event.    *)
SingleAttendeeTables ==
    {{AttendeeRow(1, e, m, d)} : e \in EventIds, m \in TravelModes,
                                 d \in DistanceTexts \cup {NullText}}

SingleActivityTables ==
    {{ActivityRow(1, e, t)} : e \in EventIds, t \in ActivityTypes}

----------------------------------------------------------------------------
(* Specifications.                                                         *)

(* The function called, and called again, on a store nobody else changes.  *)
Init ==
    /\ InitStore(AtMost(AttendeeSamples, MaxAttendees),
                 AtMost(ActivitySamples, MaxActivities), OldFootprints)
    /\ InitCall

Next ==
    \E p \in Procs :
        \/ SelectAttendees(p)
        \/ AttendeeLoop(p)
        \/ SelectActivities(p)
        \/ ActivityLoop(p)
        \/ UpdateEvent(p)
        \/ CallAgain(p)

Spec == Init /\ [][Next]_vars

(* The same, on tables of one attendee row and one activity row.           *)
InitRow ==
    /\ InitStore(SingleAttendeeTables, SingleActivityTables, {0})
    /\ InitCall

NextRow ==
    \E p \in Procs :
        \/ SelectAttendees(p)
        \/ AttendeeLoop(p)
        \/ SelectActivities(p)
        \/ ActivityLoop(p)
        \/ UpdateEvent(p)

SpecRow == InitRow /\ [][NextRow]_vars

(* One run of the program.                                                 *)
InitProgram ==
    /\ InitStore(AtMost(AttendeeSamples, MaxAttendees),
                 AtMost(ActivitySamples, MaxActivities), OldFootprints)
    /\ InitMain({1})

NextProgram ==
    \E p \in Procs :
        \/ Connect(p)
        \/ ConnectionFailed(p)
        \/ CallFootprint(p)
        \/ SelectAttendees(p)
        \/ AttendeeLoop(p)
        \/ SelectActivities(p)
        \/ ActivityLoop(p)
        \/ UpdateEvent(p)
        \/ Finish(p)

SpecMain == InitProgram /\ [][NextProgram]_vars

(* Two runs of the program at once, beside another writer of the events. *)
InitConc ==
    /\ InitStore(AtMost(AttendeeSamplesConc, 1), {{}}, {0})
    /\ InitMain({1, 2})

NextConc ==
    \/ \E p \in Procs :
          \/ Connect(p)
          \/ ConnectionFailed(p)
          \/ CallFootprint(p)
          \/ SelectAttendees(p)
          \/ AttendeeLoop(p)
          \/ SelectActivities(p)
          \/ ActivityLoop(p)
          \/ UpdateEvent(p)
          \/ Finish(p)
    \/ ExtInsertActivity
    \/ ExtWriteEvent

SpecConc == InitConc /\ [][NextConc]_vars

(* One run of the program beside the external system that owns the rows.   *)
InitExt ==
    /\ InitStore(AtMost(AttendeeSamplesConc, MaxAttendees),
                 AtMost(ActivitySamplesConc, MaxActivities), {0})
    /\ InitMain({1})

NextExt ==
    \/ \E p \in Procs :
          \/ Connect(p)
          \/ ConnectionFailed(p)
          \/ CallFootprint(p)
          \/ SelectAttendees(p)
          \/ AttendeeLoop(p)
          \/ SelectActivities(p)
          \/ ActivityLoop(p)
          \/ UpdateEvent(p)
          \/ Finish(p)
    \/ ExtInsertAttendee
    \/ ExtDeleteAttendee
    \/ ExtChangeAttendee
    \/ ExtInsertActivity
    \/ ExtDeleteActivity
    \/ ExtChangeActivity

SpecExt == InitExt /\ [][NextExt]_vars

----------------------------------------------------------------------------
(* Properties.                                                             *)

Last(seq) == seq[Len(seq)]

Count(seq, x) == Cardinality({k \in DOMAIN seq : seq[k] = x})

RECURSIVE SumResultAttendees(_, _)
(* The specification's contributions of the first n rows of a result.      *)
SumResultAttendees(r, n) ==
    IF n = 0 THEN 0
    ELSE ExpectedAttendee([travel_mode |-> r[n][2], distance |-> r[n][3]])
         + SumResultAttendees(r, n - 1)

RECURSIVE SumResultActivities(_, _)
SumResultActivities(r, n) ==
    IF n = 0 THEN 0
    ELSE ExpectedActivity([activity_type |-> r[n][2]])
         + SumResultActivities(r, n - 1)

(* C1: after a call whose two reads and whose write succeeded, the event's *)
(* carbon_footprint equals the sum of the contributions of all attendee    *)
(* rows and all activity rows of the event, whatever it held before and    *)
(* whatever the order of the rows (0, written, for an event with no rows). *)
C1_StoredEqualsSum ==
    \A p \in Procs :
        (pc[p] = "returned" /\ hist[p].outcome = "written")
        => events[event_id[p]] = Footprint(attendees, activities, event_id[p])

(* C2: every attendee row adds distance * 0.24 for the stored mode "car",  *)
(* distance * 0.18 for "plane", distance * 0.14 for "train", and 0 for any *)
(* other stored value (other case, spaces, empty, longer than 9            *)
(* characters): the running total of the attendee loop is the sum of these *)
(* contributions of the rows consumed.                                     *)
C2_AttendeeContribution ==
    \A p \in Procs :
        pc[p] = "attendee_loop"
        => total_footprint[p] = SumResultAttendees(res[p], i[p])

(* A tag of 10 characters that starts with "car" has been consumed.        *)
C2_TruncatedTagConsumed ==
    \E p \in Procs :
        /\ pc[p] = "attendee_loop"
        /\ i[p] = 1
        /\ res[p][1][2] = S_carpooling
        /\ res[p][1][3] = T_40
        /\ total_footprint[p] = 0

(* C3: every activity row adds 10 for the stored type "virtual" and 50 for *)
(* any other stored value (empty, a longer type that starts with           *)
(* "virtual", a type longer than 9 characters): the running total of the   *)
(* activity loop is the attendee total plus these contributions of the     *)
(* rows consumed.                                                          *)
C3_ActivityContribution ==
    \A p \in Procs :
        pc[p] = "activity_loop"
        => total_footprint[p] =
              SumAttendees(hist[p].att_rows) + SumResultActivities(res[p], i[p])

(* A type of 9 characters that starts with "virtual" has been consumed.    *)
C3_LongerTypeConsumed ==
    \E p \in Procs :
        /\ pc[p] = "activity_loop"
        /\ i[p] = 1
        /\ res[p][1][2] = S_virtually
        /\ total_footprint[p] = SumAttendees(hist[p].att_rows) + 50 * One

(* C4: a failed attendee read is followed by no activity read and no event *)
(* write, a failed activity read by no event write, and in both cases the  *)
(* event's carbon_footprint is the one it had before the call.             *)
C4_FailedReadAborts ==
    \A p \in Procs :
        /\ hist[p].outcome = "attendees_failed"
           => /\ Count(ops[p], "SELECT activities") = 0
              /\ Count(ops[p], "UPDATE events") = 0
              /\ events[event_id[p]] = hist[p].before
        /\ hist[p].outcome = "activities_failed"
           => /\ Count(ops[p], "UPDATE events") = 0
              /\ events[event_id[p]] = hist[p].before

(* The activity read failed after attendees were summed into a total the   *)
(* event does not hold.                                                    *)
C4_PartialTotalDropped ==
    \E p \in Procs :
        /\ pc[p] = "returned"
        /\ hist[p].outcome = "activities_failed"
        /\ total_footprint[p] > 0
        /\ events[event_id[p]] # FormatF(total_footprint[p])

(* C5: the event the function reads and updates is the event whose id was  *)
(* given on the command line.                                              *)
C5_EventFromArgument ==
    \A p \in Procs :
        (InRun(p) \/ pc[p] = "returned") => event_id[p] = argv[p]

(* C6: on every path of main one connection handle is obtained, it is      *)
(* released exactly once before the process exits, and no data-store call  *)
(* follows the release.                                                    *)
C6_OneHandleReleasedOnce ==
    \A p \in Procs :
        /\ Count(ops[p], "PQconnectdb") <= 1
        /\ \A k \in DOMAIN ops[p] :
              /\ ops[p][k] = "PQconnectdb" => k = 1
              /\ ops[p][k] = "PQfinish" => k = Len(ops[p])
        /\ pc[p] = "exit"
           => /\ Count(ops[p], "PQconnectdb") = 1
              /\ Count(ops[p], "PQfinish") = 1
              /\ ~conn[p].open

(* The process has exited after a failed activity read.                    *)
C6_ExitAfterFailedRead ==
    \E p \in Procs :
        /\ pc[p] = "exit"
        /\ hist[p].outcome = "activities_failed"
        /\ ops[p] = <<"PQconnectdb", "SELECT attendees", "SELECT activities",
                      "PQfinish">>

(* C7: the exit status is 1 exactly when the connection failed, and then   *)
(* no read and no write was issued; on every other path it is 0.           *)
C7_ExitStatus ==
    \A p \in Procs :
        pc[p] = "exit"
        => /\ exit_status[p] = 1 <=> conn[p].status # "ok"
           /\ conn[p].status # "ok" => ops[p] = <<"PQconnectdb", "PQfinish">>
           /\ conn[p].status = "ok" => exit_status[p] = 0

(* The process has exited with status 0 after a failed event write.        *)
C7_ExitZeroAfterFailedWrite ==
    \E p \in Procs :
        /\ pc[p] = "exit"
        /\ hist[p].outcome = "update_failed"
        /\ exit_status[p] = 0

(* C8: successful calls in a row on unchanged rows store the same          *)
(* carbon_footprint every time.                                            *)
C8_Idempotent ==
    \A p \in Procs :
        \A k \in DOMAIN hist[p].stored : hist[p].stored[k] = hist[p].stored[1]

(* Two calls have written, the second over the value the first stored,     *)
(* which differs from the one the first call found.                        *)
C8_SecondRunOverFirst ==
    \E p \in Procs :
        /\ Len(hist[p].stored) = 2
        /\ hist[p].run = 2
        /\ hist[p].before = hist[p].stored[1]
        /\ hist[p].stored[1] \notin OldFootprints

(* C9: the event holds what its last writer wrote: for a run of the        *)
(* program the total of the rows it read, also when another writer or      *)
(* another run wrote the event between that run's reads and its write.     *)
C9_LastWriterWins ==
    \A e \in DOMAIN events :
        /\ last_writer[e] = ExtWriter => events[e] = ExtFootprint
        /\ \A p \in Procs :
              last_writer[e] = p
              => events[e] = FormatF(SumAttendees(hist[p].att_rows)
                                     + SumActivities(hist[p].act_rows))

(* A run has overwritten, with the total of its earlier reads, the event   *)
(* that the external writer and the other run, with another total, wrote   *)
(* after those reads.                                                      *)
C9_LostUpdate ==
    \E p \in Procs : \E q \in Procs \ {p} :
        /\ hist[p].outcome = "written"
        /\ hist[p].lost = {ExtWriter, q}
        /\ hist[q].outcome = "written"
        /\ Last(hist[q].stored) # Last(hist[p].stored)
        /\ last_writer[event_id[p]] = p
        /\ events[event_id[p]] = Last(hist[p].stored)
        /\ events[event_id[p]] # ExtFootprint

(* C10: the total a run stores is the footprint of the event's rows as     *)
(* they were together at one moment between the start of the run and its   *)
(* write.                                                                  *)
C10_SingleSnapshot ==
    \A p \in Procs :
        hist[p].outcome = "written" => Last(hist[p].stored) \in hist[p].snaps

(* C10, amended: the total a run stores is the sum of the contributions of *)
(* the attendee rows current at its attendee read and of the activity rows *)
(* current at its activity read.                                           *)
C10_TwoReadMoments ==
    \A p \in Procs :
        hist[p].outcome = "written"
        => Last(hist[p].stored) = FormatF(SumAttendees(hist[p].att_rows)
                                          + SumActivities(hist[p].act_rows))

(* A run has stored a total that was the footprint of the event at no      *)
(* moment of the run.                                                      *)
C10_MixedSnapshotStored ==
    \E p \in Procs :
        /\ hist[p].outcome = "written"
        /\ Last(hist[p].stored) \notin hist[p].snaps

====
